---- MODULE Spec2Model ----
(***************************************************************************)
(* A model of the MOBE game server (src/server.js): the in-memory          *)
(* serverState, the Firebase paths it reads and writes, and every request  *)
(* handler and background task.  An async handler is one action per await  *)
(* point; a synchronous handler is one action.                             *)
(***************************************************************************)
EXTENDS Integers, Sequences, FiniteSets, TLC

(***************************************************************************)
(* Program constants (src/server.js:52-54), in milliseconds.               *)
(***************************************************************************)
MATCH_CONFIRMATION_TIMEOUT == 15000
PLAYER_TIMEOUT == 300000
MATCH_EXPIRATION == 3600000
MATCHMAKING_INTERVAL == 10000          \* period of the matchmaking background process

(***************************************************************************)
(* Bounds of the model.                                                    *)
(***************************************************************************)
SortedIds == <<"p1", "p2", "p3", "p4">>   \* player ids, in Firebase key order
PlayerIds == {SortedIds[i] : i \in 1..3}  \* the players of all but SpecPairs
AllIds == {SortedIds[i] : i \in 1..Len(SortedIds)}
EmptyId == ""                          \* a request without playerId
UnknownMatchId == "match-x"            \* a matchId that names no match
Pings == {10, 20}                      \* playerData.ping of a join request
ProfilePing == 20                      \* ping stored under players/<id>
StartPositions == {<<0, 0>>, <<400, 300>>}   \* outcomes of Math.random()
MovePositions == {<<1, 1>>, <<2, 2>>}
ActionKinds == {"move", "shoot", "ability", "dance"}
MaxOverlap == 1                        \* pairing cycles in flight at once
Ops == {"tick", "connect", "heartbeat", "disconnect", "sweep", "join", "cycle", "confirm",
        "action", "state", "fail", "poll"}
NoBudget == [op \in Ops |-> 0]

VARIABLES
  now,               \* Date.now()
  playersConnected,  \* serverState.playersConnected
  serverLoad,        \* serverState.serverLoad
  lastPing,          \* serverState.lastPing
  gameSessions,      \* serverState.gameSessions: key -> record
  keyOrder,          \* insertion order of the keys of gameSessions
  matchmakingQueue,  \* serverState.matchmakingQueue
  matchmaking,       \* Firebase matchmaking/<playerId>
  matches,           \* Firebase matches/<matchId>
  matchProposals,    \* Firebase matchProposals/<playerId>
  dbPlayers,         \* Firebase players/<playerId> (never written by the server)
  joinTasks,         \* in-flight POST /api/matchmaking/join, per player
  confirmTasks,      \* in-flight POST /api/matchmaking/confirm, per player
  statusTasks,       \* players whose POST /api/matchmaking/status found no proposal
  cycleTasks,        \* in-flight runs of the matchmaking background process
  timers,            \* armed match expiration timers
  timeoutTasks,      \* running match expiration callbacks
  crashed,           \* the process died of an uncaught exception
  response,          \* the last response sent to a client
  created,           \* key -> number of GameSession records assigned to it
  budget             \* operation -> number of requests or runs still to come

vars == <<now, playersConnected, serverLoad, lastPing, gameSessions, keyOrder,
          matchmakingQueue, matchmaking, matches, matchProposals, dbPlayers,
          joinTasks, confirmTasks, statusTasks, cycleTasks, timers, timeoutTasks,
          crashed, response, created, budget>>

memoryVars == <<playersConnected, serverLoad, lastPing, gameSessions, keyOrder>>
dbVars == <<matchmaking, matches, matchProposals, dbPlayers>>
taskVars == <<joinTasks, confirmTasks, statusTasks, cycleTasks, timers, timeoutTasks>>

(***************************************************************************)
(* JavaScript objects and Firebase nodes are functions whose domain is the *)
(* set of keys present.                                                    *)
(***************************************************************************)
Empty == << >>
Has(obj, k) == k \in DOMAIN obj
Put(obj, k, v) == [x \in DOMAIN obj \cup {k} |-> IF x = k THEN v ELSE obj[x]]
Del(obj, k) == [x \in DOMAIN obj \ {k} |-> obj[x]]
Merge(obj, new) ==
  [x \in DOMAIN obj \cup DOMAIN new |-> IF x \in DOMAIN new THEN new[x] ELSE obj[x]]
Min(a, b) == IF a < b THEN a ELSE b
Max(a, b) == IF a > b THEN a ELSE b
Range(s) == {s[i] : i \in 1..Len(s)}
IndexOf(s, e) ==
  IF e \in Range(s) THEN CHOOSE i \in 1..Len(s) : s[i] = e /\ \A j \in 1..(i - 1) : s[j] # e
  ELSE 0
RemoveAt(s, i) == [j \in 1..(Len(s) - 1) |-> IF j < i THEN s[j] ELSE s[j + 1]]
Keep(order, obj) == SelectSeq(order, LAMBDA k : k \in DOMAIN obj)
AppendKey(order, k) == IF k \in Range(order) THEN order ELSE Append(order, k)
MatchId(t) == "match-" \o ToString(t)
Spend(op) == [budget EXCEPT ![op] = @ - 1]

\* the state after the module has loaded
Pristine ==
  /\ now = 0
  /\ playersConnected = 0
  /\ serverLoad = 0
  /\ lastPing = 0
  /\ gameSessions = Empty
  /\ keyOrder = << >>
  /\ matchmakingQueue = << >>
  /\ matchmaking = Empty
  /\ matches = Empty
  /\ matchProposals = Empty
  /\ joinTasks = Empty
  /\ confirmTasks = Empty
  /\ statusTasks = {}
  /\ cycleTasks = << >>
  /\ timers = << >>
  /\ timeoutTasks = << >>
  /\ crashed = FALSE
  /\ response = [op |-> "none", status |-> "none"]
  /\ created = Empty

\* players/<id> holds whatever other clients of the database stored there
ProfileSets == {{}, {"p2"}, PlayerIds}
Profiles == {[p \in S |-> [ping |-> ProfilePing]] : S \in ProfileSets}

(***************************************************************************)
(* The clock.                                                              *)
(***************************************************************************)
Tick(d) ==
  /\ ~crashed
  /\ budget["tick"] > 0
  /\ now' = now + d
  /\ budget' = Spend("tick")
  /\ UNCHANGED <<memoryVars, matchmakingQueue, dbVars, taskVars, crashed, response, created>>

(***************************************************************************)
(* POST /api/connect                                                       *)
(***************************************************************************)
Connect(playerId) ==
  /\ ~crashed
  /\ budget["connect"] > 0
  /\ budget' = Spend("connect")
  /\ IF playerId = EmptyId
     THEN /\ response' = [op |-> "connect", status |-> "InvalidArgument"]
          /\ UNCHANGED memoryVars
     ELSE /\ playersConnected' = playersConnected + 1
          /\ serverLoad' = Min(100, serverLoad + 5)
          /\ lastPing' = now
          /\ gameSessions' = Put(gameSessions, playerId,
                                 [connectedAt |-> now, lastActivity |-> now,
                                  clientInfo |-> Empty, status |-> "connected"])
          /\ keyOrder' = AppendKey(keyOrder, playerId)
          /\ response' = [op |-> "connect", status |-> "connected"]
  /\ UNCHANGED <<now, matchmakingQueue, dbVars, taskVars, crashed, created>>

(***************************************************************************)
(* POST /api/heartbeat                                                     *)
(***************************************************************************)
Heartbeat(playerId) ==
  /\ ~crashed
  /\ budget["heartbeat"] > 0
  /\ budget' = Spend("heartbeat")
  /\ IF playerId = EmptyId \/ ~Has(gameSessions, playerId)
     THEN /\ response' = [op |-> "heartbeat", status |-> "NotFound"]
          /\ UNCHANGED <<gameSessions, lastPing>>
     ELSE /\ gameSessions' = [gameSessions EXCEPT ![playerId] = Put(@, "lastActivity", now)]
          /\ lastPing' = now
          /\ response' = [op |-> "heartbeat", status |-> "active"]
  /\ UNCHANGED <<now, playersConnected, serverLoad, keyOrder, matchmakingQueue, dbVars,
                 taskVars, crashed, created>>

(***************************************************************************)
(* cleanupPlayer.  The for-in loop visits the keys of gameSessions in      *)
(* insertion order, skipping keys deleted before they are reached; a       *)
(* record without a players array makes session.players.indexOf throw a    *)
(* TypeError, which ends the function where it is.                         *)
(***************************************************************************)
RECURSIVE EvictFrom(_, _, _, _)
EvictFrom(gs, keys, i, playerId) ==
  IF i > Len(keys) THEN [gs |-> gs, threw |-> FALSE]
  ELSE LET matchId == keys[i] IN
    IF ~Has(gs, matchId) THEN EvictFrom(gs, keys, i + 1, playerId)
    ELSE LET session == gs[matchId] IN
      IF ~Has(session, "players") THEN [gs |-> gs, threw |-> TRUE]
      ELSE LET index == IndexOf(session.players, playerId) IN
        IF index = 0 THEN EvictFrom(gs, keys, i + 1, playerId)
        ELSE LET rest == RemoveAt(session.players, index)
                 gs2 == IF Len(rest) = 0 THEN Del(gs, matchId)
                        ELSE [gs EXCEPT ![matchId] = Put(@, "players", rest)]
             IN EvictFrom(gs2, keys, i + 1, playerId)

cleanupPlayer(st, playerId) ==
  LET loop == EvictFrom(st.gs, st.order, 1, playerId)
      gs2 == IF loop.threw THEN loop.gs ELSE Del(loop.gs, playerId)
  IN [pc |-> st.pc - 1, load |-> Max(0, st.load - 5), gs |-> gs2,
      order |-> Keep(st.order, gs2), threw |-> loop.threw]

Memory == [pc |-> playersConnected, load |-> serverLoad, gs |-> gameSessions,
           order |-> keyOrder, threw |-> FALSE]

(***************************************************************************)
(* POST /api/disconnect.  An exception thrown by the synchronous handler   *)
(* is answered by the error middleware (src/server.js:492-495).            *)
(***************************************************************************)
Disconnect(playerId) ==
  /\ ~crashed
  /\ budget["disconnect"] > 0
  /\ budget' = Spend("disconnect")
  /\ IF playerId # EmptyId /\ Has(gameSessions, playerId)
     THEN LET st == cleanupPlayer(Memory, playerId) IN
          /\ playersConnected' = st.pc
          /\ serverLoad' = st.load
          /\ gameSessions' = st.gs
          /\ keyOrder' = st.order
          /\ response' = [op |-> "disconnect",
                          status |-> IF st.threw THEN "Internal" ELSE "disconnected"]
     ELSE /\ response' = [op |-> "disconnect", status |-> "disconnected"]
          /\ UNCHANGED <<playersConnected, serverLoad, gameSessions, keyOrder>>
  /\ UNCHANGED <<now, lastPing, matchmakingQueue, dbVars, taskVars, crashed, created>>

(***************************************************************************)
(* The cleanup interval (every minute).  Both loops run over a snapshot of *)
(* the keys; reading a field of a record deleted meanwhile, or an          *)
(* exception out of cleanupPlayer, is an uncaught exception in a timer     *)
(* callback and ends the process.                                          *)
(***************************************************************************)
RECURSIVE SweepPlayers(_, _, _, _)
SweepPlayers(st, keys, i, t) ==
  IF i > Len(keys) THEN st
  ELSE LET playerId == keys[i] IN
    IF ~Has(st.gs, playerId) THEN [st EXCEPT !.threw = TRUE]
    ELSE IF /\ Has(st.gs[playerId], "lastActivity")
            /\ t - st.gs[playerId].lastActivity > PLAYER_TIMEOUT
         THEN LET c == cleanupPlayer(st, playerId) IN
              IF c.threw THEN c ELSE SweepPlayers(c, keys, i + 1, t)
         ELSE SweepPlayers(st, keys, i + 1, t)

RECURSIVE SweepMatches(_, _, _, _)
SweepMatches(st, keys, i, t) ==
  IF i > Len(keys) THEN st
  ELSE LET matchId == keys[i] IN
    IF ~Has(st.gs, matchId) THEN [st EXCEPT !.threw = TRUE]
    ELSE IF /\ Has(st.gs[matchId], "lastUpdate")
            /\ t - st.gs[matchId].lastUpdate > MATCH_EXPIRATION
         THEN LET gs2 == Del(st.gs, matchId) IN
              SweepMatches([st EXCEPT !.gs = gs2, !.order = Keep(st.order, gs2)],
                           keys, i + 1, t)
         ELSE SweepMatches(st, keys, i + 1, t)

Sweep ==
  /\ ~crashed
  /\ budget["sweep"] > 0
  /\ budget' = Spend("sweep")
  /\ LET s1 == SweepPlayers(Memory, keyOrder, 1, now)
         s2 == IF s1.threw THEN s1 ELSE SweepMatches(s1, s1.order, 1, now)
     IN /\ playersConnected' = s2.pc
        /\ serverLoad' = IF s2.threw THEN s2.load ELSE Min(100, s2.pc * 2)
        /\ gameSessions' = s2.gs
        /\ keyOrder' = s2.order
        /\ crashed' = s2.threw
  /\ UNCHANGED <<now, lastPing, matchmakingQueue, dbVars, taskVars, response, created>>

(***************************************************************************)
(* The game session engine.                                                *)
(***************************************************************************)
generateTerrain == [size |-> [width |-> 1600, height |-> 1200]]

\* positions: the Math.random() start position drawn for each player
initializeGameState(players, positions, t) ==
  [players |-> [id \in Range(players) |->
                  [position |-> positions[id], health |-> 100, score |-> 0,
                   lastAction |-> t]],
   objects |-> Empty,
   terrain |-> generateTerrain,
   startTime |-> t,
   lastUpdate |-> t]

\* the value of a property that is not there (action.position of a move
\* sent without one)
Undefined == << >>
Get(obj, k) == IF Has(obj, k) THEN obj[k] ELSE Undefined

GameActions ==
  {[type |-> "move", position |-> pos] : pos \in MovePositions}
    \cup {[type |-> "move"]}
    \cup {[type |-> "shoot", direction |-> <<1, 0>>]}
    \cup {[type |-> k] : k \in ActionKinds \ {"move", "shoot"}}

\* JSON.parse(JSON.stringify(state)): numbers, strings, arrays and objects come
\* back as they were; a property whose value is undefined is left out
Jsonify(state) ==
  [state EXCEPT !.players =
     [id \in DOMAIN @ |-> IF Get(@[id], "position") = Undefined
                          THEN Del(@[id], "position") ELSE @[id]]]

\* the same, with the assignment of the move made to the old state's copy of
\* the player instead of newState's
processGameActionStale(state, playerId, action, t) ==
  IF ~Has(state.players, playerId) THEN [newState |-> state, events |-> << >>]
  ELSE
    LET newState == Jsonify(state)
        events == IF action.type = "move"
                  THEN <<[type |-> "playerMoved", playerId |-> playerId,
                          position |-> Get(action, "position")]>>
                  ELSE << >>
    IN [newState |-> [newState EXCEPT !.players[playerId].lastAction = t,
                                      !.lastUpdate = t],
        events |-> events]

processGameAction(state, playerId, action, t) ==
  IF ~Has(state.players, playerId) THEN [newState |-> state, events |-> << >>]
  ELSE
    LET player == state.players[playerId]
        newState == Jsonify(state)
        moved == IF action.type = "move"
                 THEN [newState EXCEPT !.players[playerId] =
                         Put(@, "position", Get(action, "position"))]
                 ELSE newState
        events == CASE action.type = "move" ->
                         <<[type |-> "playerMoved", playerId |-> playerId,
                            position |-> Get(action, "position")]>>
                    [] action.type = "shoot" ->
                         <<[type |-> "projectileFired", playerId |-> playerId,
                            from |-> Get(player, "position"),
                            direction |-> Get(action, "direction"),
                            timestamp |-> t]>>
                    [] OTHER -> << >>
    IN [newState |-> [moved EXCEPT !.players[playerId].lastAction = t,
                                   !.lastUpdate = t],
        events |-> events]

\* the test of src/server.js:240-241 and 260-261: "found", "NotFound", or the
\* TypeError of reading .includes of a record that has no players array
SessionLookup(matchId, playerId) ==
  IF ~Has(gameSessions, matchId) THEN "NotFound"
  ELSE IF ~Has(gameSessions[matchId], "players") THEN "TypeError"
  ELSE IF playerId \notin Range(gameSessions[matchId].players) THEN "NotFound"
  ELSE "found"

SessionKeys == DOMAIN gameSessions \cup {UnknownMatchId}

(***************************************************************************)
(* POST /api/game/action.  The session test runs outside the try block of  *)
(* the async handler: its TypeError is an unhandled promise rejection, on  *)
(* which the runtime either ends the process or only warns.                *)
(***************************************************************************)
GameAction(matchId, playerId, action) ==
  /\ ~crashed
  /\ budget["action"] > 0
  /\ budget' = Spend("action")
  /\ LET found == SessionLookup(matchId, playerId)
         req == [op |-> "action"]
     IN CASE found = "NotFound" ->
               /\ response' = Put(req, "status", "NotFound")
               /\ UNCHANGED <<gameSessions, crashed>>
          [] found = "TypeError" ->
               /\ response' = Put(req, "status", "TypeError")
               /\ crashed' \in BOOLEAN
               /\ UNCHANGED gameSessions
          [] OTHER ->
               LET result == processGameAction(gameSessions[matchId].gameState,
                                               playerId, action, now)
               IN /\ gameSessions' = [gameSessions EXCEPT
                                        ![matchId].gameState = result.newState,
                                        ![matchId].lastUpdate = now]
                  /\ response' = Merge(req, [status |-> "processed",
                                             events |-> result.events])
                  /\ UNCHANGED crashed
  /\ UNCHANGED <<now, playersConnected, serverLoad, lastPing, keyOrder, matchmakingQueue,
                 dbVars, taskVars, created>>

(***************************************************************************)
(* POST /api/game/state                                                    *)
(***************************************************************************)
GameState(matchId, playerId) ==
  /\ ~crashed
  /\ budget["state"] > 0
  /\ budget' = Spend("state")
  /\ LET found == SessionLookup(matchId, playerId)
         req == [op |-> "state"]
     IN CASE found = "NotFound" ->
               /\ response' = Put(req, "status", "NotFound")
               /\ UNCHANGED <<gameSessions, crashed>>
          [] found = "TypeError" ->
               /\ response' = Put(req, "status", "TypeError")
               /\ crashed' \in BOOLEAN
               /\ UNCHANGED gameSessions
          [] OTHER ->
               /\ gameSessions' =
                    IF Has(gameSessions, playerId)
                    THEN [gameSessions EXCEPT ![playerId] = Put(@, "lastActivity", now)]
                    ELSE gameSessions
               /\ response' = Put(req, "status", "ok")
               /\ UNCHANGED crashed
  /\ UNCHANGED <<now, playersConnected, serverLoad, lastPing, keyOrder, matchmakingQueue,
                 dbVars, taskVars, created>>

(***************************************************************************)
(* POST /api/matchmaking/join: read matchmaking/<playerId>, then write the *)
(* entry and push to the in-memory queue.                                  *)
(***************************************************************************)
JoinData == {[ping |-> n] : n \in Pings}

\* the same, without the test of the existing entry
JoinStartUnchecked(playerId, playerData) ==
  /\ ~crashed
  /\ budget["join"] > 0
  /\ ~Has(joinTasks, playerId)
  /\ budget' = Spend("join")
  /\ joinTasks' = Put(joinTasks, playerId, playerData)
  /\ UNCHANGED <<now, memoryVars, matchmakingQueue, dbVars, confirmTasks, cycleTasks,
                 timers, timeoutTasks, crashed, response, created, statusTasks>>

JoinStart(playerId, playerData) ==
  /\ ~crashed
  /\ budget["join"] > 0
  /\ ~Has(joinTasks, playerId)
  /\ budget' = Spend("join")
  /\ IF Has(matchmaking, playerId)
     THEN /\ response' = [op |-> "join", status |-> "AlreadyQueued"]
          /\ UNCHANGED joinTasks
     ELSE /\ joinTasks' = Put(joinTasks, playerId, playerData)
          /\ UNCHANGED response
  /\ UNCHANGED <<now, memoryVars, matchmakingQueue, dbVars, confirmTasks, cycleTasks,
                 timers, timeoutTasks, crashed, created, statusTasks>>

JoinSet(playerId) ==
  /\ ~crashed
  /\ Has(joinTasks, playerId)
  /\ matchmaking' = Put(matchmaking, playerId,
                        Merge(joinTasks[playerId], [status |-> "waiting", timestamp |-> now]))
  /\ matchmakingQueue' = Append(matchmakingQueue,
                                Merge(Merge([playerId |-> playerId], joinTasks[playerId]),
                                      [timestamp |-> now]))
  /\ joinTasks' = Del(joinTasks, playerId)
  /\ response' = [op |-> "join", status |-> "in_queue"]
  /\ UNCHANGED <<now, memoryVars, matches, matchProposals, dbPlayers, confirmTasks,
                 cycleTasks, timers, timeoutTasks, crashed, created, budget, statusTasks>>

(***************************************************************************)
(* The matchmaking background process (every 10 seconds).                  *)
(***************************************************************************)
RECURSIVE InsertByPing(_, _, _)
InsertByPing(sorted, id, queue) ==
  IF sorted = << >> THEN <<id>>
  ELSE IF queue[Head(sorted)].ping - queue[id].ping > 0
       THEN <<id>> \o sorted
       ELSE <<Head(sorted)>> \o InsertByPing(Tail(sorted), id, queue)

RECURSIVE SortByPing(_, _)
SortByPing(ids, queue) ==
  IF ids = << >> THEN << >>
  ELSE InsertByPing(SortByPing(SubSeq(ids, 1, Len(ids) - 1), queue), ids[Len(ids)], queue)

\* Object.entries(queue).filter(waiting).sort(by ping): a stable sort of the
\* entries taken in key order
WaitingByPing(queue) ==
  SortByPing(SelectSeq(SortedIds, LAMBDA id : Has(queue, id) /\ queue[id].status = "waiting"),
             queue)

StaleIds(queue, t) ==
  SelectSeq(SortedIds, LAMBDA id : Has(queue, id) /\ t - queue[id].timestamp > PLAYER_TIMEOUT)

\* the head of the while loop, and the code after it, run when an await resolves
LoopHead(task, t) ==
  IF Len(task.players) >= 2
  THEN [task EXCEPT !.pc = "create", !.player1 = task.players[1],
                    !.player2 = task.players[2], !.matchId = MatchId(t),
                    !.players = SubSeq(task.players, 3, Len(task.players))]
  ELSE [task EXCEPT !.pc = "stale", !.stale = StaleIds(task.queue, t)]

Finished(task) == task.pc = "stale" /\ task.stale = << >>
Resume(tasks, i, task) == IF Finished(task) THEN RemoveAt(tasks, i) ELSE [tasks EXCEPT ![i] = task]

CycleStart ==
  /\ ~crashed
  /\ budget["cycle"] > 0
  /\ Len(cycleTasks) < MaxOverlap
  /\ budget' = Spend("cycle")
  /\ LET task == LoopHead([pc |-> "read", queue |-> matchmaking,
                           players |-> WaitingByPing(matchmaking), player1 |-> EmptyId,
                           player2 |-> EmptyId, matchId |-> EmptyId, stale |-> << >>], now)
     IN cycleTasks' = IF Finished(task) THEN cycleTasks ELSE Append(cycleTasks, task)
  /\ UNCHANGED <<now, memoryVars, matchmakingQueue, dbVars, joinTasks, confirmTasks, timers,
                 timeoutTasks, crashed, response, created, statusTasks>>

CycleCreateMatch(i) ==
  /\ ~crashed
  /\ i \in DOMAIN cycleTasks
  /\ cycleTasks[i].pc = "create"
  /\ LET task == cycleTasks[i] IN
     /\ matches' = Put(matches, task.matchId,
          [id |-> task.matchId,
           players |-> Put(Put(Empty, task.player1,
                               Merge([status |-> "pending"], task.queue[task.player1])),
                           task.player2,
                           Merge([status |-> "pending"], task.queue[task.player2])),
           status |-> "pending",
           createdAt |-> now])
     /\ cycleTasks' = [cycleTasks EXCEPT ![i].pc = "notify1"]
  /\ UNCHANGED <<now, memoryVars, matchmakingQueue, matchmaking, matchProposals, dbPlayers,
                 joinTasks, confirmTasks, timers, timeoutTasks, crashed, response, created,
                 budget, statusTasks>>

Proposal(matchId, opponentId, opponent) ==
  [matchId |-> matchId, opponentId |-> opponentId, opponentPing |-> opponent.ping,
   opponentScore |-> IF Has(opponent, "score") THEN opponent.score ELSE 0,
   status |-> "proposed"]

CycleNotify(i) ==
  /\ ~crashed
  /\ i \in DOMAIN cycleTasks
  /\ cycleTasks[i].pc \in {"notify1", "notify2"}
  /\ LET task == cycleTasks[i] IN
     IF task.pc = "notify1"
     THEN /\ matchProposals' = Put(matchProposals, task.player1,
                Proposal(task.matchId, task.player2, task.queue[task.player2]))
          /\ cycleTasks' = [cycleTasks EXCEPT ![i].pc = "notify2"]
     ELSE /\ matchProposals' = Put(matchProposals, task.player2,
                Proposal(task.matchId, task.player1, task.queue[task.player1]))
          /\ cycleTasks' = [cycleTasks EXCEPT ![i].pc = "remove1"]
  /\ UNCHANGED <<now, memoryVars, matchmakingQueue, matchmaking, matches, dbPlayers,
                 joinTasks, confirmTasks, timers, timeoutTasks, crashed, response, created,
                 budget, statusTasks>>

\* the second removal is followed by setTimeout and the next loop iteration
CycleRemove(i) ==
  /\ ~crashed
  /\ i \in DOMAIN cycleTasks
  /\ cycleTasks[i].pc \in {"remove1", "remove2"}
  /\ LET task == cycleTasks[i] IN
     IF task.pc = "remove1"
     THEN /\ matchmaking' = Del(matchmaking, task.player1)
          /\ cycleTasks' = [cycleTasks EXCEPT ![i].pc = "remove2"]
          /\ UNCHANGED timers
     ELSE /\ matchmaking' = Del(matchmaking, task.player2)
          /\ timers' = Append(timers, [matchId |-> task.matchId,
                                       due |-> now + MATCH_CONFIRMATION_TIMEOUT])
          /\ cycleTasks' = Resume(cycleTasks, i, LoopHead(task, now))
  /\ UNCHANGED <<now, memoryVars, matchmakingQueue, matches, matchProposals, dbPlayers,
                 joinTasks, confirmTasks, timeoutTasks, crashed, response, created, budget,
                 statusTasks>>

CycleStale(i) ==
  /\ ~crashed
  /\ i \in DOMAIN cycleTasks
  /\ cycleTasks[i].pc = "stale"
  /\ LET task == cycleTasks[i] IN
     /\ matchmaking' = Del(matchmaking, Head(task.stale))
     /\ cycleTasks' = Resume(cycleTasks, i, [task EXCEPT !.stale = Tail(task.stale)])
  /\ UNCHANGED <<now, memoryVars, matchmakingQueue, matches, matchProposals, dbPlayers,
                 joinTasks, confirmTasks, timers, timeoutTasks, crashed, response, created,
                 budget, statusTasks>>

\* the write the cycle is waiting for is rejected by the database: the await
\* throws, the catch block logs the error and the run ends there
CycleFail(i) ==
  /\ ~crashed
  /\ budget["fail"] > 0
  /\ i \in DOMAIN cycleTasks
  /\ budget' = Spend("fail")
  /\ cycleTasks' = RemoveAt(cycleTasks, i)
  /\ UNCHANGED <<now, memoryVars, matchmakingQueue, dbVars, joinTasks, confirmTasks, timers,
                 timeoutTasks, crashed, response, created, statusTasks>>

(***************************************************************************)
(* The match expiration callback armed by setTimeout for each pair.        *)
(***************************************************************************)
Requeued(profile, t) == Merge(profile, [status |-> "waiting", timestamp |-> t])

\* the timer fires and the callback reads matches/<matchId>
TimeoutFire(i) ==
  /\ ~crashed
  /\ i \in DOMAIN timers
  /\ now >= timers[i].due
  /\ timers' = RemoveAt(timers, i)
  /\ LET matchId == timers[i].matchId IN
     IF /\ Has(matches, matchId)
        /\ Has(matches[matchId], "status")
        /\ matches[matchId].status = "pending"
     THEN timeoutTasks' = Append(timeoutTasks,
            [pc |-> "cancel", matchId |-> matchId, match |-> matches[matchId],
             rest |-> << >>])
     ELSE UNCHANGED timeoutTasks
  /\ UNCHANGED <<now, memoryVars, matchmakingQueue, dbVars, joinTasks, confirmTasks,
                 cycleTasks, crashed, response, created, budget, statusTasks>>

TimeoutCancel(i) ==
  /\ ~crashed
  /\ i \in DOMAIN timeoutTasks
  /\ timeoutTasks[i].pc = "cancel"
  /\ LET task == timeoutTasks[i]
         old == IF Has(matches, task.matchId) THEN matches[task.matchId] ELSE Empty
         ids == IF Has(task.match, "players")
                THEN SelectSeq(SortedIds, LAMBDA id : Has(task.match.players, id))
                ELSE << >>
     IN /\ matches' = Put(matches, task.matchId,
                          Merge(old, [status |-> "cancelled",
                                      reason |-> "confirmation_timeout"]))
        /\ timeoutTasks' = IF ids = << >> THEN RemoveAt(timeoutTasks, i)
                           ELSE [timeoutTasks EXCEPT ![i].pc = "requeue", ![i].rest = ids]
  /\ UNCHANGED <<now, memoryVars, matchmakingQueue, matchmaking, matchProposals, dbPlayers,
                 joinTasks, confirmTasks, cycleTasks, timers, crashed, response, created,
                 budget, statusTasks>>

\* one iteration of the for-in loop: read players/<playerId>, write the entry
TimeoutRequeue(i) ==
  /\ ~crashed
  /\ i \in DOMAIN timeoutTasks
  /\ timeoutTasks[i].pc = "requeue"
  /\ LET task == timeoutTasks[i]
         playerId == Head(task.rest)
     IN /\ matchmaking' = IF Has(dbPlayers, playerId)
                          THEN Put(matchmaking, playerId, Requeued(dbPlayers[playerId], now))
                          ELSE matchmaking
        /\ timeoutTasks' = IF Tail(task.rest) = << >> THEN RemoveAt(timeoutTasks, i)
                           ELSE [timeoutTasks EXCEPT ![i].rest = Tail(task.rest)]
  /\ UNCHANGED <<now, memoryVars, matchmakingQueue, matches, matchProposals, dbPlayers,
                 joinTasks, confirmTasks, cycleTasks, timers, crashed, response, created,
                 budget, statusTasks>>

(***************************************************************************)
(* POST /api/matchmaking/status: read matchProposals/<playerId>; when      *)
(* there is none, read matchmaking/<playerId>.                             *)
(***************************************************************************)
StatusStart(playerId) ==
  /\ ~crashed
  /\ budget["poll"] > 0
  /\ playerId \notin statusTasks
  /\ budget' = Spend("poll")
  /\ IF Has(matchProposals, playerId)
     THEN /\ response' = [op |-> "status", status |-> "match_found",
                          playerId |-> playerId, match |-> matchProposals[playerId]]
          /\ UNCHANGED statusTasks
     ELSE /\ statusTasks' = statusTasks \cup {playerId}
          /\ UNCHANGED response
  /\ UNCHANGED <<now, memoryVars, matchmakingQueue, dbVars, joinTasks, confirmTasks,
                 cycleTasks, timers, timeoutTasks, crashed, created>>

StatusQueue(playerId) ==
  /\ ~crashed
  /\ playerId \in statusTasks
  /\ statusTasks' = statusTasks \ {playerId}
  /\ response' = [op |-> "status", playerId |-> playerId,
                  status |-> IF Has(matchmaking, playerId) THEN "waiting"
                             ELSE "not_in_queue"]
  /\ UNCHANGED <<now, memoryVars, matchmakingQueue, dbVars, joinTasks, confirmTasks,
                 cycleTasks, timers, timeoutTasks, crashed, created, budget>>

(***************************************************************************)
(* POST /api/matchmaking/confirm                                           *)
(***************************************************************************)
MatchKeys == DOMAIN matches \cup {UnknownMatchId}

\* db.ref(matches/<matchId>/players/<playerId>).update(fields)
UpdatePlayer(db, matchId, playerId, fields) ==
  LET match == IF Has(db, matchId) THEN db[matchId] ELSE Empty
      players == IF Has(match, "players") THEN match.players ELSE Empty
      player == IF Has(players, playerId) THEN players[playerId] ELSE Empty
  IN Put(db, matchId, Put(match, "players", Put(players, playerId, Merge(player, fields))))

\* db.ref(matches/<matchId>).update(fields)
UpdateMatch(db, matchId, fields) ==
  Put(db, matchId, Merge(IF Has(db, matchId) THEN db[matchId] ELSE Empty, fields))

AllReady(match) == \A id \in DOMAIN match.players : match.players[id].status = "ready"

StatusOf(db, matchId) ==
  IF ~Has(db, matchId) THEN "absent"
  ELSE IF Has(db[matchId], "status") THEN db[matchId].status ELSE "none"

IsParticipant(db, matchId, playerId) ==
  /\ Has(db, matchId)
  /\ Has(db[matchId], "players")
  /\ Has(db[matchId].players, playerId)

\* what the request found: the match's status and whether playerId is one of its
\* players (kept with the task for the properties; the handler does not read it)
Seen(matchId, playerId) ==
  [status |-> StatusOf(matches, matchId),
   reason |-> IF Has(matches, matchId) /\ Has(matches[matchId], "reason")
              THEN matches[matchId].reason ELSE "none",
   participant |-> IsParticipant(matches, matchId, playerId)]

\* the request arrives and its first write is applied
ConfirmStart(playerId, matchId, accept) ==
  /\ ~crashed
  /\ budget["confirm"] > 0
  /\ ~Has(confirmTasks, playerId)
  /\ budget' = Spend("confirm")
  /\ IF accept
     THEN /\ matches' = UpdatePlayer(matches, matchId, playerId,
                                     [status |-> "ready", timestamp |-> now])
          /\ confirmTasks' = Put(confirmTasks, playerId,
                                 [pc |-> "read", matchId |-> matchId, accept |-> TRUE,
                                  match |-> Empty, seen |-> Seen(matchId, playerId)])
     ELSE /\ matches' = UpdateMatch(matches, matchId,
                                    [status |-> "cancelled", reason |-> "rejected",
                                     rejectedBy |-> playerId])
          /\ confirmTasks' = Put(confirmTasks, playerId,
                                 [pc |-> "unpropose", matchId |-> matchId, accept |-> FALSE,
                                  match |-> Empty, seen |-> Seen(matchId, playerId)])
  /\ UNCHANGED <<now, memoryVars, matchmakingQueue, matchmaking, matchProposals, dbPlayers,
                 joinTasks, cycleTasks, timers, timeoutTasks, crashed, response, created,
                 statusTasks>>

ConfirmResponse(status) == [op |-> "confirm", status |-> status]

ConfirmRead(playerId) ==
  /\ ~crashed
  /\ Has(confirmTasks, playerId)
  /\ confirmTasks[playerId].pc = "read"
  /\ LET match == matches[confirmTasks[playerId].matchId] IN
     IF AllReady(match)
     THEN /\ confirmTasks' = [confirmTasks EXCEPT ![playerId].pc = "activate",
                                                  ![playerId].match = match]
          /\ UNCHANGED response
     ELSE /\ confirmTasks' = Del(confirmTasks, playerId)
          /\ response' = ConfirmResponse("confirmed")
  /\ UNCHANGED <<now, memoryVars, matchmakingQueue, dbVars, joinTasks, cycleTasks, timers,
                 timeoutTasks, crashed, created, budget, statusTasks>>

ConfirmActivate(playerId) ==
  /\ ~crashed
  /\ Has(confirmTasks, playerId)
  /\ confirmTasks[playerId].pc = "activate"
  /\ matches' = UpdateMatch(matches, confirmTasks[playerId].matchId, [status |-> "active"])
  /\ confirmTasks' = [confirmTasks EXCEPT ![playerId].pc = "session"]
  /\ UNCHANGED <<now, memoryVars, matchmakingQueue, matchmaking, matchProposals, dbPlayers,
                 joinTasks, cycleTasks, timers, timeoutTasks, crashed, response, created,
                 budget, statusTasks>>

\* serverState.gameSessions[matchId] = { ... }
ConfirmCreateSession(playerId) ==
  /\ ~crashed
  /\ Has(confirmTasks, playerId)
  /\ confirmTasks[playerId].pc = "session"
  /\ LET task == confirmTasks[playerId]
         players == SelectSeq(SortedIds, LAMBDA id : Has(task.match.players, id))
     IN \E positions \in [Range(players) -> StartPositions] :
          /\ gameSessions' = Put(gameSessions, task.matchId,
                                 [players |-> players, startedAt |-> now,
                                  lastUpdate |-> now,
                                  gameState |-> initializeGameState(players, positions, now)])
          /\ keyOrder' = AppendKey(keyOrder, task.matchId)
          /\ created' = Put(created, task.matchId,
                            IF Has(created, task.matchId) THEN created[task.matchId] + 1
                            ELSE 1)
  /\ confirmTasks' = Del(confirmTasks, playerId)
  /\ response' = ConfirmResponse("confirmed")
  /\ UNCHANGED <<now, playersConnected, serverLoad, lastPing, matchmakingQueue, dbVars,
                 joinTasks, cycleTasks, timers, timeoutTasks, crashed, budget, statusTasks>>

RejectUnpropose(playerId) ==
  /\ ~crashed
  /\ Has(confirmTasks, playerId)
  /\ confirmTasks[playerId].pc = "unpropose"
  /\ matchProposals' = Del(matchProposals, playerId)
  /\ confirmTasks' = [confirmTasks EXCEPT ![playerId].pc = "requeue"]
  /\ UNCHANGED <<now, memoryVars, matchmakingQueue, matchmaking, matches, dbPlayers,
                 joinTasks, cycleTasks, timers, timeoutTasks, crashed, response, created,
                 budget, statusTasks>>

\* read players/<playerId> and, when it exists, write the rejecting player's entry
RejectRequeue(playerId) ==
  /\ ~crashed
  /\ Has(confirmTasks, playerId)
  /\ confirmTasks[playerId].pc = "requeue"
  /\ matchmaking' = IF Has(dbPlayers, playerId)
                    THEN Put(matchmaking, playerId, Requeued(dbPlayers[playerId], now))
                    ELSE matchmaking
  /\ response' = ConfirmResponse("rejected")
  /\ confirmTasks' = Del(confirmTasks, playerId)
  /\ UNCHANGED <<now, memoryVars, matchmakingQueue, matches, matchProposals, dbPlayers,
                 joinTasks, cycleTasks, timers, timeoutTasks, crashed, created, budget,
                 statusTasks>>

(***************************************************************************)
(* The server: every handler and background task.                          *)
(***************************************************************************)
SessionStep ==
  \/ \E playerId \in PlayerIds \cup {EmptyId} : Connect(playerId)
  \/ \E playerId \in PlayerIds \cup {EmptyId} : Heartbeat(playerId)
  \/ \E playerId \in PlayerIds \cup {EmptyId} : Disconnect(playerId)
  \/ Sweep

GameStep ==
  \/ \E matchId \in SessionKeys, playerId \in PlayerIds, action \in GameActions :
       GameAction(matchId, playerId, action)
  \/ \E matchId \in SessionKeys, playerId \in PlayerIds : GameState(matchId, playerId)

JoinStep ==
  \/ \E playerId \in PlayerIds, playerData \in JoinData : JoinStart(playerId, playerData)
  \/ \E playerId \in PlayerIds : JoinSet(playerId)

CycleStep ==
  \/ CycleStart
  \/ \E i \in DOMAIN cycleTasks : CycleCreateMatch(i)
  \/ \E i \in DOMAIN cycleTasks : CycleNotify(i)
  \/ \E i \in DOMAIN cycleTasks : CycleRemove(i)
  \/ \E i \in DOMAIN cycleTasks : CycleStale(i)

FailStep == \E i \in DOMAIN cycleTasks : CycleFail(i)

StatusStep ==
  \/ \E playerId \in PlayerIds : StatusStart(playerId)
  \/ \E playerId \in PlayerIds : StatusQueue(playerId)

TimeoutStep ==
  \/ \E i \in DOMAIN timers : TimeoutFire(i)
  \/ \E i \in DOMAIN timeoutTasks : TimeoutCancel(i)
  \/ \E i \in DOMAIN timeoutTasks : TimeoutRequeue(i)

ConfirmStep ==
  \/ \E playerId \in PlayerIds, matchId \in MatchKeys, accept \in BOOLEAN :
       ConfirmStart(playerId, matchId, accept)
  \/ \E playerId \in PlayerIds : ConfirmRead(playerId)
  \/ \E playerId \in PlayerIds : ConfirmActivate(playerId)
  \/ \E playerId \in PlayerIds : ConfirmCreateSession(playerId)
  \/ \E playerId \in PlayerIds : RejectUnpropose(playerId)
  \/ \E playerId \in PlayerIds : RejectRequeue(playerId)

Next ==
  \/ \E d \in {MATCH_CONFIRMATION_TIMEOUT, PLAYER_TIMEOUT + 1, MATCH_EXPIRATION + 1} : Tick(d)
  \/ SessionStep
  \/ GameStep
  \/ JoinStep
  \/ CycleStep
  \/ FailStep
  \/ TimeoutStep
  \/ StatusStep
  \/ ConfirmStep

MaxCalls == 2
Init ==
  /\ Pristine
  /\ dbPlayers \in Profiles
  /\ budget = [op \in Ops |-> MaxCalls]

Spec == Init /\ [][Next]_vars

(***************************************************************************)
(* States the server passes through, from which the narrower               *)
(* specifications below start.  Proposed: p1 and p2 have joined at time 0  *)
(* and one pairing cycle has proposed match-0 to them.  Playing: both have *)
(* then accepted, with or without having connected before they joined.     *)
(***************************************************************************)
ProposedEntry == [ping |-> 10, status |-> "waiting", timestamp |-> 0]

Proposed ==
  /\ now = 0
  /\ playersConnected = 0
  /\ serverLoad = 0
  /\ lastPing = 0
  /\ gameSessions = Empty
  /\ keyOrder = << >>
  /\ matchmakingQueue = <<[playerId |-> "p1", ping |-> 10, timestamp |-> 0],
                          [playerId |-> "p2", ping |-> 10, timestamp |-> 0]>>
  /\ matchmaking = Empty
  /\ matches = Put(Empty, MatchId(0),
                   [id |-> MatchId(0),
                    players |-> [id \in {"p1", "p2"} |-> ProposedEntry],
                    status |-> "pending",
                    createdAt |-> 0])
  /\ matchProposals = [id \in {"p1", "p2"} |->
                         Proposal(MatchId(0), IF id = "p1" THEN "p2" ELSE "p1",
                                  ProposedEntry)]
  /\ joinTasks = Empty
  /\ confirmTasks = Empty
  /\ statusTasks = {}
  /\ cycleTasks = << >>
  /\ timers = <<[matchId |-> MatchId(0), due |-> MATCH_CONFIRMATION_TIMEOUT]>>
  /\ timeoutTasks = << >>
  /\ crashed = FALSE
  /\ response = [op |-> "join", status |-> "in_queue"]
  /\ created = Empty

PlayerSession(t) ==
  [connectedAt |-> t, lastActivity |-> t, clientInfo |-> Empty, status |-> "connected"]

ReadyEntry == [ping |-> 10, status |-> "ready", timestamp |-> 0]

\* connected: the players that connected before the match was confirmed
Playing(connected) ==
  /\ now = 0
  /\ playersConnected = Len(connected)
  /\ serverLoad = 5 * Len(connected)
  /\ lastPing = 0
  /\ \E positions \in [{"p1", "p2"} -> StartPositions] :
       gameSessions = Put([id \in Range(connected) |-> PlayerSession(0)], MatchId(0),
                          [players |-> <<"p1", "p2">>, startedAt |-> 0, lastUpdate |-> 0,
                           gameState |-> initializeGameState(<<"p1", "p2">>, positions, 0)])
  /\ keyOrder = Append(connected, MatchId(0))
  /\ matchmakingQueue = <<[playerId |-> "p1", ping |-> 10, timestamp |-> 0],
                          [playerId |-> "p2", ping |-> 10, timestamp |-> 0]>>
  /\ matchmaking = Empty
  /\ matches = Put(Empty, MatchId(0),
                   [id |-> MatchId(0),
                    players |-> [id \in {"p1", "p2"} |-> ReadyEntry],
                    status |-> "active",
                    createdAt |-> 0])
  /\ matchProposals = [id \in {"p1", "p2"} |->
                         Proposal(MatchId(0), IF id = "p1" THEN "p2" ELSE "p1",
                                  ProposedEntry)]
  /\ joinTasks = Empty
  /\ confirmTasks = Empty
  /\ statusTasks = {}
  /\ cycleTasks = << >>
  /\ timers = <<[matchId |-> MatchId(0), due |-> MATCH_CONFIRMATION_TIMEOUT]>>
  /\ timeoutTasks = << >>
  /\ crashed = FALSE
  /\ response = [op |-> "confirm", status |-> "confirmed"]
  /\ created = Put(Empty, MatchId(0), 1)

Started ==
  \/ Pristine
  \/ Playing(<< >>)
  \/ Playing(<<"p1", "p2">>)

(***************************************************************************)
(* Matchmaking on its own: players connect and join, the pairing cycle     *)
(* proposes matches, and the confirmation deadline passes.                 *)
(***************************************************************************)
MatchTicks == 1
MatchConnects == 1
MatchJoins == 3
MatchCycles == 1

InitMatch ==
  /\ Pristine
  /\ dbPlayers \in Profiles
  /\ budget = [NoBudget EXCEPT !["tick"] = MatchTicks, !["connect"] = MatchConnects,
                               !["join"] = MatchJoins, !["cycle"] = MatchCycles]

NextMatch ==
  \/ \E d \in {MATCH_CONFIRMATION_TIMEOUT, PLAYER_TIMEOUT + 1} : Tick(d)
  \/ \E playerId \in PlayerIds : Connect(playerId)
  \/ JoinStep
  \/ CycleStep
  \/ TimeoutStep

SpecMatch == InitMatch /\ [][NextMatch]_vars

\* joins and pairing cycles alone
QueueTicks == 1
QueueJoins == 2
QueueCycles == 1

InitQueue ==
  /\ Pristine
  /\ dbPlayers = Empty
  /\ budget = [NoBudget EXCEPT !["tick"] = QueueTicks, !["join"] = QueueJoins,
                               !["cycle"] = QueueCycles]

NextQueue ==
  \/ Tick(PLAYER_TIMEOUT + 1)
  \/ JoinStep
  \/ CycleStep

SpecQueue == InitQueue /\ [][NextQueue]_vars

\* joins and pairing cycles, with a database that may reject a write of the cycle
FailTicks == 1
FailJoins == 2
FailCycles == 1
FailWrites == 1

InitFail ==
  /\ Pristine
  /\ dbPlayers \in Profiles
  /\ budget = [NoBudget EXCEPT !["tick"] = FailTicks, !["join"] = FailJoins,
                               !["cycle"] = FailCycles, !["fail"] = FailWrites]

NextFail ==
  \/ \E d \in {MATCH_CONFIRMATION_TIMEOUT, PLAYER_TIMEOUT + 1} : Tick(d)
  \/ JoinStep
  \/ CycleStep
  \/ FailStep
  \/ TimeoutStep

SpecFail == InitFail /\ [][NextFail]_vars

\* four players join with the same ping and are paired
PairsTicks == 1
PairsJoins == 4
PairsCycles == 1

InitPairs ==
  /\ Pristine
  /\ dbPlayers = Empty
  /\ budget = [NoBudget EXCEPT !["tick"] = PairsTicks, !["join"] = PairsJoins,
                               !["cycle"] = PairsCycles]

NextPairs ==
  \/ Tick(PLAYER_TIMEOUT + 1)
  \/ \E playerId \in AllIds : JoinStart(playerId, [ping |-> 10])
  \/ \E playerId \in AllIds : JoinSet(playerId)
  \/ CycleStep

SpecPairs == InitPairs /\ [][NextPairs]_vars

\* matchmaking goes on while match-0 is proposed to p1 and p2
RejoinTicks == 1
RejoinJoins == 2
RejoinCycles == 1

InitRejoin ==
  /\ Proposed
  /\ dbPlayers \in Profiles
  /\ budget = [NoBudget EXCEPT !["tick"] = RejoinTicks, !["join"] = RejoinJoins,
                               !["cycle"] = RejoinCycles]

NextRejoin ==
  \/ \E d \in {MATCHMAKING_INTERVAL, PLAYER_TIMEOUT + 1} : Tick(d)
  \/ JoinStep
  \/ CycleStep
  \/ TimeoutStep

SpecRejoin == InitRejoin /\ [][NextRejoin]_vars

(***************************************************************************)
(* The confirmation handshake on its own, on a match that is proposed or   *)
(* already confirmed.                                                      *)
(***************************************************************************)
ConfirmTicks == 1
ConfirmCalls == 2

InitConfirm ==
  /\ Proposed \/ Playing(<< >>)
  /\ dbPlayers \in Profiles
  /\ budget = [NoBudget EXCEPT !["tick"] = ConfirmTicks, !["confirm"] = ConfirmCalls]

NextConfirm ==
  \/ Tick(MATCH_CONFIRMATION_TIMEOUT)
  \/ TimeoutStep
  \/ ConfirmStep

SpecConfirm == InitConfirm /\ [][NextConfirm]_vars

\* players poll their matchmaking status while the handshake goes on
PollTicks == 1
PollConfirms == 1
PollCalls == 2

InitPoll ==
  /\ Proposed \/ Playing(<< >>)
  /\ dbPlayers \in Profiles
  /\ budget = [NoBudget EXCEPT !["tick"] = PollTicks, !["confirm"] = PollConfirms,
                               !["poll"] = PollCalls]

NextPoll ==
  \/ Tick(MATCH_CONFIRMATION_TIMEOUT)
  \/ TimeoutStep
  \/ ConfirmStep
  \/ StatusStep

SpecPoll == InitPoll /\ [][NextPoll]_vars

(***************************************************************************)
(* The session store and the game session engine on their own.             *)
(***************************************************************************)
SessionTicks == 2
SessionConnects == 2
SessionHeartbeats == 1
SessionDisconnects == 2
SessionSweeps == 1
GameTicks == 1
GameConnects == 1
GameDisconnects == 1
GameActionCalls == 2
GameStateReads == 1

InitSession ==
  /\ Started
  /\ dbPlayers = Empty
  /\ budget = [NoBudget EXCEPT !["tick"] = SessionTicks, !["connect"] = SessionConnects,
                               !["heartbeat"] = SessionHeartbeats,
                               !["disconnect"] = SessionDisconnects,
                               !["sweep"] = SessionSweeps]

NextSession ==
  \/ \E d \in {PLAYER_TIMEOUT + 1, MATCH_EXPIRATION + 1} : Tick(d)
  \/ SessionStep

SpecSession == InitSession /\ [][NextSession]_vars

InitGame ==
  /\ Started
  /\ dbPlayers = Empty
  /\ budget = [NoBudget EXCEPT !["tick"] = GameTicks, !["connect"] = GameConnects,
                               !["disconnect"] = GameDisconnects,
                               !["action"] = GameActionCalls,
                               !["state"] = GameStateReads]

NextGame ==
  \/ Tick(MATCH_CONFIRMATION_TIMEOUT)
  \/ \E playerId \in PlayerIds : Connect(playerId)
  \/ \E playerId \in PlayerIds : Disconnect(playerId)
  \/ GameStep

SpecGame == InitGame /\ [][NextGame]_vars

\* the two players of a running game act, and nothing else happens
MoveTicks == 1
MoveActionCalls == 3
MoveStateReads == 1

InitMoves ==
  /\ Playing(<< >>)
  /\ dbPlayers = Empty
  /\ budget = [NoBudget EXCEPT !["tick"] = MoveTicks, !["action"] = MoveActionCalls,
                               !["state"] = MoveStateReads]

NextMoves ==
  \/ Tick(MATCH_CONFIRMATION_TIMEOUT)
  \/ GameStep

SpecMoves == InitMoves /\ [][NextMoves]_vars

\* clients name any key of serverState.gameSessions as playerId or matchId
AliasTicks == 1
AliasConnects == 1
AliasDisconnects == 1
AliasSweeps == 1
AliasConfirms == 1

InitAlias ==
  /\ Playing(<< >>) \/ Playing(<<"p1", "p2">>)
  /\ dbPlayers = Empty
  /\ budget = [NoBudget EXCEPT !["tick"] = AliasTicks, !["connect"] = AliasConnects,
                               !["disconnect"] = AliasDisconnects,
                               !["sweep"] = AliasSweeps, !["confirm"] = AliasConfirms]

NextAlias ==
  \/ Tick(PLAYER_TIMEOUT + 1)
  \/ \E playerId \in PlayerIds \cup DOMAIN gameSessions : Connect(playerId)
  \/ \E playerId \in PlayerIds : Disconnect(playerId)
  \/ Sweep
  \/ \E playerId \in PlayerIds, matchId \in MatchKeys \cup PlayerIds :
       ConfirmStart(playerId, matchId, TRUE)
  \/ \E playerId \in PlayerIds : ConfirmRead(playerId)
  \/ \E playerId \in PlayerIds : ConfirmActivate(playerId)
  \/ \E playerId \in PlayerIds : ConfirmCreateSession(playerId)

SpecAlias == InitAlias /\ [][NextAlias]_vars

(***************************************************************************)
(* Proposed and Playing are reachable from the loaded module: two players  *)
(* connect (or not), join, are paired and both accept.  Each of the three  *)
(* predicates below is violated under SpecStart.                           *)
(***************************************************************************)
StartConnects == 2
StartJoins == 2
StartCycles == 1
StartConfirms == 2

InitStart ==
  /\ Pristine
  /\ dbPlayers = Empty
  /\ budget = [NoBudget EXCEPT !["connect"] = StartConnects, !["join"] = StartJoins,
                               !["cycle"] = StartCycles, !["confirm"] = StartConfirms]

NextStart ==
  \/ \E playerId \in {"p1", "p2"} : Connect(playerId)
  \/ \E playerId \in {"p1", "p2"} : JoinStart(playerId, [ping |-> 10])
  \/ \E playerId \in {"p1", "p2"} : JoinSet(playerId)
  \/ CycleStep
  \/ \E playerId \in {"p1", "p2"}, matchId \in DOMAIN matches :
       ConfirmStart(playerId, matchId, TRUE)
  \/ \E playerId \in PlayerIds : ConfirmRead(playerId)
  \/ \E playerId \in PlayerIds : ConfirmActivate(playerId)
  \/ \E playerId \in PlayerIds : ConfirmCreateSession(playerId)

SpecStart == InitStart /\ [][NextStart]_vars

PlayingNotReached == ~Playing(<< >>)
PlayingConnectedNotReached == ~Playing(<<"p1", "p2">>)
ProposedNotReached == ~Proposed

(***************************************************************************)
(* Properties.                                                             *)
(***************************************************************************)
InQueue(playerId) ==
  Has(matchmaking, playerId) /\ matchmaking[playerId].status = "waiting"

InActiveMatch(playerId) ==
  \E matchId \in DOMAIN matches :
    /\ StatusOf(matches, matchId) \in {"pending", "active"}
    /\ IsParticipant(matches, matchId, playerId)

\* the pairing cycle is between creating playerId's match and removing playerId's
\* queue entry
BeingPaired(playerId) ==
  \E i \in DOMAIN cycleTasks :
    /\ cycleTasks[i].pc \in {"create", "notify1", "notify2", "remove1", "remove2"}
    /\ playerId \in {cycleTasks[i].player1, cycleTasks[i].player2}

\* C1: no player is at once in the matchmaking queue with status waiting and a
\* participant of a pending or active match (stated for the states outside the
\* pairing cycle's own steps on that player, where the cycle has written the match
\* and not yet removed the queue entry).
C1_QueueOrMatch ==
  \A playerId \in PlayerIds :
    ~BeingPaired(playerId) => ~(InQueue(playerId) /\ InActiveMatch(playerId))

Participants(matchId) ==
  IF Has(matches, matchId) /\ Has(matches[matchId], "players")
  THEN DOMAIN matches[matchId].players ELSE {}

Count(matchId) == IF Has(created, matchId) THEN created[matchId] ELSE 0

\* exactly two confirm requests were made so far, and they were the accepts of the
\* two participants of matchId (only a player's own accept writes its status ready)
DualConfirm(matchId) ==
  /\ budget["confirm"] = ConfirmCalls - 2
  /\ Cardinality(Participants(matchId)) = 2
  /\ AllReady(matches[matchId])

\* C2: when the two participants of a proposed match each send one accept, the
\* GameSession of the match is created exactly once: never twice, and once when
\* both requests have been answered.
C2_DualConfirmOnce ==
  \A matchId \in DOMAIN matches :
    DualConfirm(matchId) =>
      /\ Count(matchId) <= 1
      /\ confirmTasks = Empty => Count(matchId) = 1

\* the match expiration callback i ends with this step
TimeoutEnds(i) ==
  /\ TimeoutCancel(i) \/ TimeoutRequeue(i)
  /\ Len(timeoutTasks') < Len(timeoutTasks)

Connected(playerId) ==
  Has(gameSessions, playerId) /\ Has(gameSessions[playerId], "status")

\* C3: when the expiration callback of a match that was still pending has run, the
\* match is cancelled with reason confirmation_timeout and every participant that
\* is connected is in the matchmaking queue with status waiting.
C3_TimeoutRequeues ==
  [][\A i \in DOMAIN timeoutTasks :
       TimeoutEnds(i) =>
         LET matchId == timeoutTasks[i].matchId IN
         /\ StatusOf(matches', matchId) = "cancelled"
         /\ matches'[matchId].reason = "confirmation_timeout"
         /\ \A playerId \in DOMAIN timeoutTasks[i].match.players :
              Connected(playerId)' => InQueue(playerId)']_vars

\* the reject of playerId, sent while the match was pending and playerId one of its
\* players, ends with this step
RejectEnds(playerId) ==
  /\ RejectRequeue(playerId)
  /\ confirmTasks[playerId].seen.status = "pending"
  /\ confirmTasks[playerId].seen.participant

\* C4: when participant A rejects a proposed match, the match is cancelled with a
\* rejected-by-player reason, the other participant B, if still connected (a session
\* on the server or a record under players/), is back in the queue with status
\* waiting, and A is not in the queue.
C4_RejectRequeuesOther ==
  [][\A a \in PlayerIds :
       RejectEnds(a) =>
         LET matchId == confirmTasks[a].matchId IN
         /\ StatusOf(matches', matchId) = "cancelled"
         /\ matches'[matchId].reason = "rejected"
         /\ \A b \in Participants(matchId) \ {a} :
              (Connected(b) \/ Has(dbPlayers, b)) => InQueue(b)'
         /\ ~InQueue(a)']_vars

\* a later step of playerId's confirm request
ConfirmTaskStep(playerId) ==
  \/ ConfirmRead(playerId)
  \/ ConfirmActivate(playerId)
  \/ ConfirmCreateSession(playerId)
  \/ RejectUnpropose(playerId)
  \/ RejectRequeue(playerId)

ConfirmEnds(playerId) == Has(confirmTasks, playerId) /\ ~Has(confirmTasks', playerId)

Unknown(seen) == seen.status = "absent" \/ ~seen.participant

\* C5: a confirm whose matchId names no match, or whose playerId is not a player of
\* that match, changes no match record and no game session and is answered
\* NotFound.
C5_UnknownConfirmRejected ==
  [][\A playerId \in PlayerIds :
       /\ \A matchId \in MatchKeys, accept \in BOOLEAN :
            ConfirmStart(playerId, matchId, accept) /\ Unknown(Seen(matchId, playerId))
              => matches' = matches
       /\ ConfirmTaskStep(playerId) /\ Unknown(confirmTasks[playerId].seen)
            => /\ matches' = matches
               /\ gameSessions' = gameSessions
               /\ ConfirmEnds(playerId) => response'.status = "NotFound"]_vars

Terminal(seen) == seen.status \in {"active", "cancelled"}
TerminalName(status) == IF status = "active" THEN "confirmed" ELSE "cancelled"
ReasonOf(db, matchId) ==
  IF Has(db, matchId) /\ Has(db[matchId], "reason") THEN db[matchId].reason ELSE "none"
SessionOf(gs, matchId) == IF Has(gs, matchId) THEN gs[matchId] ELSE Empty

\* C6: a confirm sent for a match that is already confirmed or cancelled changes
\* neither the match's status and reason, nor the queue, nor the match's
\* GameSession, and is answered with that terminal status.
C6_TerminalConfirmNoOp ==
  [][\A playerId \in PlayerIds :
       /\ \A matchId \in MatchKeys, accept \in BOOLEAN :
            ConfirmStart(playerId, matchId, accept) /\ Terminal(Seen(matchId, playerId))
              => /\ StatusOf(matches', matchId) = StatusOf(matches, matchId)
                 /\ ReasonOf(matches', matchId) = ReasonOf(matches, matchId)
       /\ ConfirmTaskStep(playerId) /\ Terminal(confirmTasks[playerId].seen)
            => LET matchId == confirmTasks[playerId].matchId IN
               /\ StatusOf(matches', matchId) = StatusOf(matches, matchId)
               /\ ReasonOf(matches', matchId) = ReasonOf(matches, matchId)
               /\ matchmaking' = matchmaking
               /\ SessionOf(gameSessions', matchId) = SessionOf(gameSessions, matchId)
               /\ ConfirmEnds(playerId) =>
                    response'.status = TerminalName(confirmTasks[playerId].seen.status)]_vars

IsGameSession(gs, key) == Has(gs, key) /\ Has(gs[key], "players")

\* C7: disconnect of a player that has a session is answered without error, and
\* afterwards the player's session is gone, the player is a participant of no
\* GameSession, and no GameSession is left without participants; disconnect of a
\* player without a session changes nothing.
C7_DisconnectCleansUp ==
  [][\A playerId \in PlayerIds \cup {EmptyId} :
       Disconnect(playerId) =>
         IF Has(gameSessions, playerId)
         THEN /\ response'.status = "disconnected"
              /\ ~Has(gameSessions', playerId)
              /\ \A key \in DOMAIN gameSessions' :
                   IsGameSession(gameSessions', key) =>
                     /\ playerId \notin Range(gameSessions'[key].players)
                     /\ gameSessions'[key].players # << >>
         ELSE UNCHANGED <<playersConnected, serverLoad, gameSessions, keyOrder>>]_vars

Idle(gs, key, t) ==
  /\ Has(gs[key], "lastActivity")
  /\ ~Has(gs[key], "players")
  /\ t - gs[key].lastActivity > PLAYER_TIMEOUT

\* C8: a run of the cleanup sweep removes every player session idle for longer than
\* PLAYER_TIMEOUT, leaves no GameSession without participants, and leaves the
\* process running for the next tick.
C8_SweepRemovesIdle ==
  [][Sweep =>
       /\ ~crashed'
       /\ \A key \in DOMAIN gameSessions :
            Idle(gameSessions, key, now) => ~Has(gameSessions', key)
       /\ \A key \in DOMAIN gameSessions' :
            IsGameSession(gameSessions', key) => gameSessions'[key].players # << >>]_vars

SupportedKinds == {"move", "shoot", "ability"}

\* C9: an action of an unsupported kind is answered UnsupportedAction and leaves
\* the session's game state as it was.
C9_UnsupportedActionRejected ==
  [][\A matchId \in SessionKeys, playerId \in PlayerIds, action \in GameActions :
       /\ GameAction(matchId, playerId, action)
       /\ SessionLookup(matchId, playerId) = "found"
       /\ action.type \notin SupportedKinds
       => /\ response'.status = "UnsupportedAction"
          /\ gameSessions'[matchId].gameState = gameSessions[matchId].gameState]_vars

\* C10: an action for a matchId that has no GameSession, or from a player that is
\* not a participant of it, is answered NotFound and changes no session.
C10_UnknownActionRejected ==
  [][\A matchId \in SessionKeys, playerId \in PlayerIds, action \in GameActions :
       /\ GameAction(matchId, playerId, action)
       /\ \/ ~IsGameSession(gameSessions, matchId)
          \/ playerId \notin Range(gameSessions[matchId].players)
       => /\ response'.status = "NotFound"
          /\ gameSessions' = gameSessions]_vars

MaxMoves == 2
Moves == {action \in GameActions : action.type = "move"}
MoveSeqs == UNION {[1..n -> Moves] : n \in 1..MaxMoves}
PositionOf(gs, matchId, playerId) == Get(gs[matchId].gameState.players[playerId], "position")
Moved(playerId, action) ==
  [type |-> "playerMoved", playerId |-> playerId, position |-> Get(action, "position")]

\* the actions of a sequence applied one after another, as the handler of
\* /api/game/action applies them, and the events emitted on the way
RECURSIVE ApplyActions(_, _, _, _)
ApplyActions(state, playerId, actions, t) ==
  IF actions = << >> THEN [newState |-> state, events |-> << >>]
  ELSE LET before == ApplyActions(state, playerId, SubSeq(actions, 1, Len(actions) - 1), t)
           last == processGameAction(before.newState, playerId, actions[Len(actions)], t)
       IN [newState |-> last.newState, events |-> before.events \o last.events]

MovesInOrder ==
  \A matchId \in DOMAIN gameSessions :
    IsGameSession(gameSessions, matchId) =>
      \A playerId \in Range(gameSessions[matchId].players), moves \in MoveSeqs :
        LET result == ApplyActions(gameSessions[matchId].gameState, playerId, moves, now) IN
        /\ Get(result.newState.players[playerId], "position")
             = Get(moves[Len(moves)], "position")
        /\ result.events = [i \in 1..Len(moves) |-> Moved(playerId, moves[i])]

MoveApplied ==
  \A matchId \in SessionKeys, playerId \in PlayerIds, action \in GameActions :
    SessionLookup(matchId, playerId) = "found" /\ GameAction(matchId, playerId, action)
      => IF action.type = "move"
         THEN /\ PositionOf(gameSessions', matchId, playerId) = Get(action, "position")
              /\ response'.status = "processed"
              /\ response'.events = <<Moved(playerId, action)>>
              /\ \A other \in DOMAIN gameSessions[matchId].gameState.players \ {playerId} :
                   PositionOf(gameSessions', matchId, other)
                     = PositionOf(gameSessions, matchId, other)
         ELSE /\ \A id \in DOMAIN gameSessions[matchId].gameState.players :
                   PositionOf(gameSessions', matchId, id) = PositionOf(gameSessions, matchId, id)
              /\ \A i \in DOMAIN response'.events : response'.events[i].type # "playerMoved"

\* C11: moves applied one after another by a participant leave the player at the
\* position of the last move and emit one playerMoved event per move, carrying that
\* move's position, in the order applied; in the handler, a move answers with its
\* one event and stores its position, and no other action or player changes it.
C11_MovesInOrder == []MovesInOrder /\ [][MoveApplied]_vars

\* p1 has moved to (1,1) and p2 has then moved: both positions stand
C11_TwoMovesApplied ==
  /\ budget["action"] = MoveActionCalls - 2
  /\ IsGameSession(gameSessions, MatchId(0))
  /\ PositionOf(gameSessions, MatchId(0), "p1") = <<1, 1>>
  /\ PositionOf(gameSessions, MatchId(0), "p2") = <<2, 2>>
  /\ response = [op |-> "action", status |-> "processed",
                 events |-> <<Moved("p2", [type |-> "move", position |-> <<2, 2>>])>>]

\* C12: a join for a player that has an entry in the matchmaking queue is answered
\* AlreadyQueued and changes neither matchmaking/ (the entry keeps its data and
\* timestamp) nor the in-memory queue, and leaves no write of the request pending.
C12_SecondJoinRejected ==
  [][\A playerId \in PlayerIds, playerData \in JoinData :
       Has(matchmaking, playerId) /\ JoinStart(playerId, playerData)
         => /\ response' = [op |-> "join", status |-> "AlreadyQueued"]
            /\ matchmaking' = matchmaking
            /\ matchmakingQueue' = matchmakingQueue
            /\ joinTasks' = joinTasks]_vars

\* p1 joined with ping 10, and p1's second join was refused
C12_SecondJoinSeen ==
  /\ response = [op |-> "join", status |-> "AlreadyQueued"]
  /\ budget["join"] = QueueJoins - 2
  /\ matchmaking = Put(Empty, "p1", [ping |-> 10, status |-> "waiting", timestamp |-> 0])
  /\ matchmakingQueue = <<[playerId |-> "p1", ping |-> 10, timestamp |-> 0]>>
  /\ joinTasks = Empty

\* entry a comes before entry b: lower ping, or the same ping and enqueued earlier
Before(queue, a, b) ==
  \/ queue[a].ping < queue[b].ping
  \/ queue[a].ping = queue[b].ping /\ queue[a].timestamp < queue[b].timestamp

\* C13: in a pairing cycle the waiting entries of the snapshot are taken in
\* ascending order of ping, ties in ascending order of enqueue time, and each pair
\* is the first two of those not yet paired: no entry left for a later pair comes
\* before an entry of the pair being formed.
C13_PairsByPingThenTime ==
  \A i \in DOMAIN cycleTasks :
    LET task == cycleTasks[i] IN
    task.pc = "create" =>
      \A paired \in {task.player1, task.player2}, left \in Range(task.players) :
        ~Before(task.queue, left, paired)

ActiveMatchesOf(playerId) ==
  {matchId \in DOMAIN matches :
     /\ StatusOf(matches, matchId) \in {"pending", "active"}
     /\ IsParticipant(matches, matchId, playerId)}

\* C14: every player is a participant of at most one match that is proposed
\* (pending) or confirmed (active).
C14_OneActiveMatch ==
  \A playerId \in PlayerIds : Cardinality(ActiveMatchesOf(playerId)) <= 1

\* the proposal made to playerId names a match record that holds playerId and
\* the opponent named with it
ProposalStands(playerId) ==
  LET proposal == matchProposals[playerId] IN
  /\ IsParticipant(matches, proposal.matchId, playerId)
  /\ IsParticipant(matches, proposal.matchId, proposal.opponentId)

\* C15: the pairing cycle gives every match an id that no match record has yet,
\* also when it forms two pairs at one clock reading, so that every proposal names
\* a match record holding the two players it was made for.
C15_FreshMatchId ==
  /\ [](\A playerId \in DOMAIN matchProposals : ProposalStands(playerId))
  /\ [][\A i \in DOMAIN cycleTasks :
          CycleCreateMatch(i) => ~Has(matches, cycleTasks[i].matchId)]_vars

PairSteps == {"create", "notify1", "notify2", "remove1", "remove2"}

\* a match expiration timer is armed, or its callback running, for matchId
TimerArmed(matchId) ==
  \/ \E k \in DOMAIN timers : timers[k].matchId = matchId
  \/ \E k \in DOMAIN timeoutTasks : timeoutTasks[k].matchId = matchId

\* C16: when a write of the pairing cycle fails while it is proposing a pair, each
\* of the two players is afterwards still in the queue, or a player of the proposed
\* (pending) match with the match's expiration timer armed.
C16_FailedPairKeepsPlayers ==
  [][\A i \in DOMAIN cycleTasks :
       cycleTasks[i].pc \in PairSteps /\ CycleFail(i) =>
         \A playerId \in {cycleTasks[i].player1, cycleTasks[i].player2} :
           \/ InQueue(playerId)'
           \/ /\ StatusOf(matches', cycleTasks[i].matchId) = "pending"
              /\ IsParticipant(matches', cycleTasks[i].matchId, playerId)
              /\ TimerArmed(cycleTasks[i].matchId)']_vars

Confirmed(matchId) ==
  StatusOf(matches, matchId) = "active" \/ IsGameSession(gameSessions, matchId)

\* C17: however the steps of the expiration callback interleave with confirm
\* requests, the callback never writes cancelled over a match that is confirmed
\* (status active, or its GameSession created) and never re-enqueues a participant
\* of such a match.
C17_TimeoutSparesConfirmed ==
  [][\A i \in DOMAIN timeoutTasks :
       /\ TimeoutCancel(i) => ~Confirmed(timeoutTasks[i].matchId)
       /\ TimeoutRequeue(i) /\ matchmaking' # matchmaking
            => ~Confirmed(timeoutTasks[i].matchId)]_vars

IsPlayerSession(gs, key) == Has(gs, key) /\ ~Has(gs[key], "players")

\* C18: connect never replaces a GameSession record, creating a GameSession never
\* replaces a player session record, and disconnect and the sweep pass over player
\* session records when they go through the GameSessions: they end without the
\* error of reading one as a GameSession.
C18_SessionsNeverAlias ==
  [][/\ \A key \in PlayerIds \cup DOMAIN gameSessions :
          Connect(key) => ~IsGameSession(gameSessions, key)
     /\ \A playerId \in PlayerIds :
          ConfirmCreateSession(playerId) =>
            ~IsPlayerSession(gameSessions, confirmTasks[playerId].matchId)
     /\ \A playerId \in PlayerIds :
          Disconnect(playerId) => response'.status = "disconnected"
     /\ Sweep => ~crashed']_vars

PlayerSessions == {key \in DOMAIN gameSessions : IsPlayerSession(gameSessions, key)}

\* C19: while the server runs, playersConnected is not negative and not smaller
\* than the number of player session records stored.
C19_CounterCoversSessions ==
  ~crashed =>
    /\ playersConnected >= 0
    /\ playersConnected >= Cardinality(PlayerSessions)

\* the poll of playerId is answered in this step
StatusAnswered(playerId) ==
  /\ StatusStart(playerId) \/ StatusQueue(playerId)
  /\ playerId \notin statusTasks'

\* C20: the status poll answers match_found only while the match named in the
\* player's proposal is pending, and answers waiting for a player that is in the
\* queue after that match was cancelled.
C20_MatchFoundOnlyWhilePending ==
  [][\A playerId \in PlayerIds :
       StatusAnswered(playerId) =>
         /\ response'.status = "match_found" =>
              StatusOf(matches, response'.match.matchId) = "pending"
         /\ /\ InQueue(playerId)
            /\ Has(matchProposals, playerId)
            /\ StatusOf(matches, matchProposals[playerId].matchId) = "cancelled"
            => response'.status = "waiting"]_vars

====
